---- MODULE Spec2Model ----
(***************************************************************************)
(* RT.Backend - OAuth: the DiscordOAuth route guard of backend/oauth.py.   *)
(*                                                                         *)
(* Python strings are sequences of tokens (a token is one character or an  *)
(* unbroken run of characters that no operation of the module looks       *)
(* inside).  Coroutines are cut at their awaits: an action is the code     *)
(* that runs between two suspension points of one request task.            *)
(***************************************************************************)
EXTENDS Integers, Sequences, FiniteSets, TLC

VARIABLES
    bot,          \* DiscordOAuth.bot
    loop,         \* DiscordOAuth.loop
    redirects,    \* DiscordOAuth.redirects : dict callback URL -> authorize URL
    session,      \* DiscordOAuth._session
    route,        \* the guarded route built by require_login / _wrap_route
    reqs,         \* one record per request task: the locals of new_route
    opened,       \* history: number of aiohttp.ClientSession objects built
    fetched,      \* history: URLs whose get_url round trip completed since the last reset
    resetPending  \* history: URLs reset and not asked for by get_url since

vars == <<bot, loop, redirects, session, route, reqs, opened, fetched, resetPending>>

-----------------------------------------------------------------------------
(* Python values *)

\* Python's None, kept apart from every string of the model
None == <<"<None>">>

\* truth value of an Optional[str]: None and "" are falsy
Truthy(x) == x # None /\ x # <<>>

\* dict.get(key, default)
Get(d, k, default) == IF k \in DOMAIN d THEN d[k] ELSE default

\* str.find(ch): 0-based index of the first occurrence, -1 when there is none
PyFind(s, ch) ==
    IF \E i \in 1..Len(s) : s[i] = ch
    THEN (CHOOSE i \in 1..Len(s) : s[i] = ch /\ \A j \in 1..(i - 1) : s[j] # ch) - 1
    ELSE -1

\* a slice bound as Python normalises it
PyBound(s, i) ==
    IF i < 0 THEN (IF Len(s) + i < 0 THEN 0 ELSE Len(s) + i)
    ELSE (IF i > Len(s) THEN Len(s) ELSE i)

\* s[:i]
PyHead(s, i) == SubSeq(s, 1, PyBound(s, i))

\* s[i:]
PyTail(s, i) == SubSeq(s, PyBound(s, i) + 1, Len(s))

\* s.replace(a, b) for a one-token a
PyReplace(s, a, b) == [i \in 1..Len(s) |-> IF s[i] = a THEN b ELSE s[i]]

\* sep.join(parts)
RECURSIVE PyJoin(_, _)
PyJoin(sep, parts) ==
    IF parts = <<>> THEN <<>>
    ELSE IF Len(parts) = 1 THEN parts[1]
    ELSE parts[1] \o sep \o PyJoin(sep, Tail(parts))

-----------------------------------------------------------------------------
(* Construction parameters and the world outside *)

BASE == <<"https", ":", "/", "/", "discord.com", "/", "api", "/", "v8", "/">>
client_id == <<"cid">>
client_secret == <<"csecret">>
secret_key == "key"

\* app.ctx.bot and app.loop, as the startup task finds them
TheBot == <<"bot">>
TheLoop == <<"loop">>
TheSession == <<"ClientSession">>

\* discord users the provider and the bot know
Users == {[id |-> 1, name |-> "alice"], [id |-> 2, name |-> "bob"]}
NoneUser == [id |-> 0, name |-> "<None>"]

\* decimal text of the user ids
IdText == <<"1", "2">>

\* str(n) of a user id, as ujson.dumps writes it
IdToText(n) == IdText[n]

\* int(text) succeeds
IsIntText(text) == \E n \in 1..Len(IdText) : IdText[n] = text

\* int(text)
TextToId(text) == CHOOSE n \in 1..Len(IdText) : IdText[n] = text

-----------------------------------------------------------------------------
(* reprypt and ujson *)

convert_b64 == "b64"
convert_hex == "hex"
DecryptError == <<"<DecryptError>">>
Garbage == <<"<garbage>">>

\* reprypt.encrypt(text, pa, converter=...)
reprypt_encrypt(text, pa, converter) == <<"reprypt", converter, pa>> \o text

\* the text is a ciphertext made with this key and converter
IsCipherOf(text, pa, converter) ==
    /\ Len(text) >= 3
    /\ text[1] = "reprypt"
    /\ text[2] = converter
    /\ text[3] = pa

\* reprypt.decrypt(text, pa, converter=...): the possible results. Input that
\* was not encrypted with this key and converter either raises DecryptError
\* or comes out as unreadable text.
reprypt_decrypt(text, pa, converter) ==
    IF IsCipherOf(text, pa, converter)
    THEN {SubSeq(text, 4, Len(text))}
    ELSE {DecryptError, Garbage}

\* ujson.dumps of a flat dict: {"k": v, ...} as text
dumps(d) ==
    LET keys == CHOOSE q \in [1..Cardinality(DOMAIN d) -> DOMAIN d] :
                    \A i, j \in DOMAIN q : i # j => q[i] # q[j]
        Body[i \in 0..Len(keys)] ==
            IF i = 0 THEN <<>> ELSE Body[i - 1] \o <<keys[i], d[keys[i]]>>
    IN <<"{">> \o Body[Len(keys)] \o <<"}">>

\* ujson.loads succeeds on the text
IsJson(text) ==
    /\ Len(text) >= 2
    /\ text[1] = "{"
    /\ text[Len(text)] = "}"
    /\ (Len(text) - 2) % 2 = 0

\* ujson.loads(text) of a text that parses
loads(text) ==
    LET n == (Len(text) - 2) \div 2
        keys == {text[2 * i] : i \in 1..n}
    IN [k \in keys |-> text[1 + 2 * (CHOOSE i \in 1..n : text[2 * i] = k)]]

-----------------------------------------------------------------------------
(* Requests, routes and the provider *)

\* what may be passed for state_generator / state_checker
DefaultArg == <<"default">>
CustomArg == <<"custom">>
CheckArgs == {DefaultArg, CustomArg, None}

\* the bound methods require_login can hand to _wrap_route
SelfStateGenerator == <<"self.state_generator">>
SelfStateChecker == <<"self.state_checker">>

DefaultScope == << <<"identify">> >>

EmptyDict == [k \in {} |-> <<>>]

NoRequest ==
    [scheme |-> "", host |-> <<>>, path |-> <<>>, ip |-> <<>>,
     cookies |-> None, args |-> EmptyDict]

NoRoute ==
    [registered |-> FALSE, force |-> FALSE, scope |-> DefaultScope,
     generator_arg |-> None, checker_arg |-> None,
     state_generator |-> None, state_checker |-> None]

Tasks == {"t1", "t2"}

Codes == {<<"ABC">>, <<"DEF">>}

\* the token endpoint accepts the form data: the client's credentials and a
\* code it issued (a missing code is no such code)
ProviderAccepts(data) ==
    /\ data.client_id = client_id
    /\ data.client_secret = client_secret
    /\ data.grant_type = <<"authorization_code">>
    /\ data.code \in Codes

\* the access token the provider grants for a code
ProviderToken(code) == <<"token-of">> \o code

\* the user the provider reports for an access token
ProviderUser(token) ==
    IF Tail(token) = <<"ABC">>
    THEN [id |-> 1, name |-> "alice"]
    ELSE [id |-> 2, name |-> "bob"]

\* the URL of the provider's answer to GET oauth2/authorize (r.url)
ProviderAuthorizeUrl(params) ==
    BASE \o <<"oauth2", "/", "authorize", "?", "response_type=">>
         \o params.response_type \o <<"&", "scope=">> \o params.scope
         \o <<"&", "client_id=">> \o params.client_id
         \o <<"&", "redirect_uri=">> \o params.redirect_uri

\* bot.fetch_user(id)
fetch_user(id) == CHOOSE u \in Users : u.id = id

-----------------------------------------------------------------------------
(* DiscordOAuth: the synchronous helpers *)

\* the n-th aiohttp.ClientSession object built
NewSession(n) == TheSession \o <<ToString(n)>>

\* a session property that builds a client session on every read
session_get_Always(s, n) == NewSession(n + 1)

\* the session property: the client session after self.session was read,
\* n sessions having been built before
session_get(s, n) == IF s = None THEN NewSession(n + 1) ELSE s

\* get_redirect_oauth(url) on the dict d
get_redirect_oauth(d, url) == Get(d, url, None)

\* reset_oauth that stores the url instead of None
redirects_reset_Url(d, url) == (url :> url) @@ d

\* the dict after reset_oauth(url)
redirects_reset(d, url) == (url :> None) @@ d

\* the dict after reset_all_oauth()
redirects_reset_all(d) ==
    LET keys == CHOOSE q \in [1..Cardinality(DOMAIN d) -> DOMAIN d] :
                    \A i, j \in DOMAIN q : i # j => q[i] # q[j]
        After[i \in 0..Len(keys)] ==
            IF i = 0 THEN d ELSE redirects_reset(After[i - 1], keys[i])
    IN After[Len(keys)]

\* get_token: the form data of the token request
get_token_data(code, callback_url) ==
    [client_id |-> client_id,
     client_secret |-> client_secret,
     grant_type |-> <<"authorization_code">>,
     code |-> code,
     redirect_uri |-> callback_url]

\* get_url: the params of the authorize request
get_url_params(redirect_url, scope) ==
    [response_type |-> <<"code">>,
     scope |-> PyJoin(<<"%20">>, scope),
     client_id |-> client_id,
     redirect_uri |-> redirect_url]

\* get_url: r.url with the slashes of its query part escaped
get_url_escape(url) ==
    LET slash == PyFind(url, "?")
    IN PyHead(url, slash) \o PyReplace(PyTail(url, slash), "/", "%2F")

\* get_url: the returned URL, with the state appended when there is one
get_url_return(url, state) ==
    url \o (IF Truthy(state) THEN <<"&state=">> \o state ELSE <<>>)

\* encrypt(data)
encrypt(data) == reprypt_encrypt(dumps(data), secret_key, convert_b64)

\* the cookie data with the two fields swapped
CookieData_Swapped(user) == [id |-> user.name, name |-> IdToText(user.id)]

\* the cookie data new_route builds from request.ctx.user
CookieData(user) == [id |-> IdToText(user.id), name |-> user.name]

make_base_url(request) == <<request.scheme, ":", "/", "/">> \o request.host

\* make_url that leaves the path out
make_url_NoPath(request, path) == make_base_url(request)

make_url(request, path) == make_base_url(request) \o path

state_generator(request) ==
    reprypt_encrypt(request.host \o request.ip, secret_key, convert_hex)

\* a state_checker that compares the host alone
state_checker_HostOnly(request, state) ==
    {IF d = DecryptError THEN FALSE
     ELSE /\ Len(d) >= Len(request.host)
          /\ SubSeq(d, 1, Len(request.host)) = request.host :
        d \in reprypt_decrypt(state, secret_key, convert_hex)}

\* state_checker(request, state): the possible results
state_checker(request, state) ==
    {IF d = DecryptError THEN FALSE ELSE (request.host \o request.ip) = d :
        d \in reprypt_decrypt(state, secret_key, convert_hex)}

\* get_user_cookie that looks the user up by the name field
get_user_cookie_ByName(cookie) ==
    {IF d = DecryptError THEN [kind |-> "return", uid |-> 0]
     ELSE IF ~IsJson(d) THEN [kind |-> "raise", uid |-> 0]
     ELSE IF "name" \notin DOMAIN loads(d) THEN [kind |-> "raise", uid |-> 0]
     ELSE IF ~IsIntText(loads(d)["name"]) THEN [kind |-> "raise", uid |-> 0]
     ELSE [kind |-> "await", uid |-> TextToId(loads(d)["name"])] :
        d \in reprypt_decrypt(cookie, secret_key, convert_b64)}

\* get_user_cookie(cookie) up to its await: it returns None, raises, or
\* awaits bot.fetch_user(uid)
get_user_cookie(cookie) ==
    {IF d = DecryptError THEN [kind |-> "return", uid |-> 0]
     ELSE IF ~IsJson(d) THEN [kind |-> "raise", uid |-> 0]
     ELSE IF "id" \notin DOMAIN loads(d) THEN [kind |-> "raise", uid |-> 0]
     ELSE IF ~IsIntText(loads(d)["id"]) THEN [kind |-> "raise", uid |-> 0]
     ELSE [kind |-> "await", uid |-> TextToId(loads(d)["id"])] :
        d \in reprypt_decrypt(cookie, secret_key, convert_b64)}

-----------------------------------------------------------------------------
(* The requests considered *)

Schemes == {"https"}
Hosts == {<<"a.example">>, <<"b.example">>}
Ips == {<<"10.0.0.1">>}
Paths == {<<"/", "me">>}

\* request.cookies.get("session", None): no cookie, an empty one, one that
\* is no ciphertext, the cookies of the users, a ciphertext of text that is
\* not JSON, and a ciphertext of JSON without an id
Cookies ==
    {None, <<>>, <<"junk">>}
    \cup {encrypt(CookieData(u)) : u \in Users}
    \cup {encrypt([name |-> "alice"]),
          reprypt_encrypt(<<"hello">>, secret_key, convert_b64)}

\* the state query parameters: the token generated for the first host, and
\* one that is no token at all
StateArgs ==
    {state_generator([host |-> <<"a.example">>, ip |-> <<"10.0.0.1">>]),
     <<"bogus">>}

\* request.args
ArgDicts ==
    {EmptyDict, ("other" :> <<"1">>)}
    \cup {("code" :> c) : c \in Codes}
    \cup {("state" :> s) : s \in StateArgs}
    \cup {("code" :> c) @@ ("state" :> s) : c \in Codes, s \in StateArgs}

Requests ==
    [scheme : Schemes, host : Hosts, path : Paths, ip : Ips,
     cookies : Cookies, args : ArgDicts]

\* the callback URLs of the requests considered
URLs == {make_url(r, r.path) : r \in Requests}

-----------------------------------------------------------------------------
(* The locals of one new_route call *)

\* the most client sessions the history counter tells apart
MaxOpened == 2

IdleReq ==
    [pc |-> "idle", request |-> NoRequest, mode |-> "normal",
     user |-> NoneUser, uid |-> 0, state |-> None, token |-> None,
     calls |-> <<>>, seen |-> <<>>, e |-> "",
     status |-> 0, location |-> None, set_cookie |-> None]

\* raise SanicException(..., code), ServiceUnavailable (503), or an exception
\* nothing catches (500)
Raise(r, code) == [r EXCEPT !.pc = "done", !.status = code]

\* a provider request goes out on self.session
Send(r, endpoint) == [r EXCEPT !.pc = endpoint, !.calls = Append(@, endpoint)]

\* a handler of the provider error that sends the request again
ProviderError_Retry(r, endpoint) == Send(r, endpoint)

\* the awaited provider call raised ClientResponseError inside the try of the
\* callback branch: except ... as e: raise SanicException(..., 400)
ProviderError(r, endpoint) == Raise([r EXCEPT !.e = endpoint], 400)

\* the user another request's token resolves to, when there is one
get_userdata_user_Shared(t) ==
    LET others == {u \in Tasks : u # t /\ reqs[u].token # None}
    IN IF others # {}
       THEN ProviderUser(reqs[CHOOSE u \in others : TRUE].token)
       ELSE ProviderUser(reqs[t].token)

\* get_userdata(token) of task t: the User built from the answer to the
\* token that task passed
get_userdata_user(t) == ProviderUser(reqs[t].token)

\* a cookie written for every request that has a user, whatever the mode
ResponseCookie_AnyUser(r) ==
    IF r.user # NoneUser THEN encrypt(CookieData(r.user)) ELSE None

\* response.cookies["session"] when new_route returns the response of func
ResponseCookie(r) ==
    IF r.mode = "write-cookie" THEN encrypt(CookieData(r.user)) ELSE None

\* response = await func(request, ...): func is entered with request.ctx.user
CallFunc(r) == [r EXCEPT !.pc = "func", !.seen = Append(@, r.user)]

\* return redirect(url)
Redirect(r, url) == [r EXCEPT !.pc = "done", !.status = 302, !.location = url]

\* Phase without the readiness check
Phase_NoBotCheck(request) ==
    IF Truthy(request.cookies) \/ route.force THEN "cookie"
    ELSE IF DOMAIN request.args # {} THEN "callback"
    ELSE "login"

\* a new_route that takes the cookie branch only for a cookie
Phase_NoForce(request) ==
    IF bot = None THEN "unavailable"
    ELSE IF Truthy(request.cookies) THEN "cookie"
    ELSE IF DOMAIN request.args # {} THEN "callback"
    ELSE "login"

\* which branch of new_route the request takes
Phase(request) ==
    IF bot = None THEN "unavailable"
    ELSE IF Truthy(request.cookies) \/ route.force THEN "cookie"
    ELSE IF DOMAIN request.args # {} THEN "callback"
    ELSE "login"

\* new_route, cookie branch, up to its first await
CookieBranch(r) ==
    LET data == r.request.cookies
    IN IF Truthy(data)
       THEN {IF o.kind = "await" THEN [r EXCEPT !.pc = "fetch_user", !.uid = o.uid]
             ELSE IF o.kind = "return" THEN CallFunc([r EXCEPT !.user = NoneUser])
             ELSE Raise(r, 500) : o \in get_user_cookie(data)}
       ELSE {CallFunc([r EXCEPT !.user = NoneUser])}

\* new_route, callback branch, up to its first await
CallbackBranch(r) ==
    IF route.state_generator # None
    THEN IF route.state_checker = None
         THEN {Raise(r, 500)}
         ELSE {IF ok THEN Send(r, "token") ELSE Raise(r, 403) :
                  ok \in state_checker(r.request, Get(r.request.args, "state", <<>>))}
    ELSE {Send(r, "token")}

\* new_route, login branch, with get_url up to its await
LoginBranch(r) ==
    LET redirect_url == make_url(r.request, r.request.path)
        state == IF route.state_generator # None
                 THEN state_generator(r.request) ELSE None
        url == Get(redirects, redirect_url, None)
        r1 == [r EXCEPT !.state = state]
    IN IF url = None
       THEN {Send(r1, "authorize")}
       ELSE {Redirect(r1, get_url_return(url, state))}

\* new_route from its entry to its first await, its return or its raise
Begin(request) ==
    LET r == [IdleReq EXCEPT !.request = request]
        phase == Phase(request)
    IN IF phase = "unavailable" THEN {Raise(r, 503)}
       ELSE IF phase = "cookie" THEN CookieBranch(r)
       ELSE IF phase = "callback" THEN CallbackBranch(r)
       ELSE LoginBranch(r)

-----------------------------------------------------------------------------
(* Actions *)

Init ==
    /\ bot = None
    /\ loop = None
    /\ redirects = EmptyDict
    /\ session = None
    /\ route = NoRoute
    /\ reqs = [t \in Tasks |-> IdleReq]
    /\ opened = 0
    /\ fetched = {}
    /\ resetPending = {}

\* what setattr returns
SetattrResult == None

\* the task __init__ appends to app.ctx.tasks, run once when the app starts:
\* setattr(self, "bot", app.ctx.bot) and setattr(self, "loop", app.loop)
Startup ==
    /\ bot = None
    /\ bot' = TheBot
    /\ loop' = IF Truthy(SetattrResult) THEN TheLoop ELSE loop
    /\ UNCHANGED <<redirects, session, route, reqs, opened, fetched, resetPending>>

\* require_login: what _wrap_route gets for state_generator
require_login_generator(arg) ==
    IF arg = DefaultArg THEN SelfStateGenerator ELSE None

\* require_login: what _wrap_route gets for state_checker
require_login_checker(arg) ==
    IF arg = DefaultArg THEN SelfStateChecker ELSE None

\* the route is decorated with require_login(force, scope, state_generator, state_checker)
require_login(force, scope, generator_arg, checker_arg) ==
    /\ ~route.registered
    /\ route' = [registered |-> TRUE, force |-> force, scope |-> scope,
                 generator_arg |-> generator_arg, checker_arg |-> checker_arg,
                 state_generator |-> require_login_generator(generator_arg),
                 state_checker |-> require_login_checker(checker_arg)]
    /\ UNCHANGED <<bot, loop, redirects, session, reqs, opened, fetched, resetPending>>

\* self.session is read for a provider request
ReadSession ==
    /\ session' = session_get(session, opened)
    /\ opened' = IF session' # session /\ opened < MaxOpened
                 THEN opened + 1 ELSE opened

\* a request reaches the guarded route: new_route runs to its first await
new_route(t, request) ==
    /\ route.registered
    /\ reqs[t].pc = "idle"
    /\ \E r \in Begin(request) :
          /\ reqs' = [reqs EXCEPT ![t] = r]
          /\ IF r.calls # <<>> THEN ReadSession
             ELSE UNCHANGED <<session, opened>>
    /\ resetPending' = IF Phase(request) = "login"
                       THEN resetPending \ {make_url(request, request.path)}
                       ELSE resetPending
    /\ UNCHANGED <<bot, loop, redirects, route, fetched>>

\* bot.fetch_user returns: get_user_cookie returns the user, func is called
fetch_user_returns(t) ==
    /\ reqs[t].pc = "fetch_user"
    /\ reqs' = [reqs EXCEPT ![t] =
                   CallFunc([@ EXCEPT !.user = fetch_user(reqs[t].uid)])]
    /\ UNCHANGED <<bot, loop, redirects, session, route, opened, fetched, resetPending>>

\* the token endpoint answers get_token; on success get_userdata sends its request
token_response(t, ok) ==
    /\ reqs[t].pc = "token"
    /\ ok => ProviderAccepts(get_token_data(
                 Get(reqs[t].request.args, "code", None),
                 make_url(reqs[t].request, reqs[t].request.path)))
    /\ reqs' = [reqs EXCEPT ![t] =
                   IF ok
                   THEN Send([@ EXCEPT !.token =
                                ProviderToken(Get(reqs[t].request.args, "code", None))],
                             "userinfo")
                   ELSE ProviderError(@, "token")]
    /\ IF ok THEN ReadSession ELSE UNCHANGED <<session, opened>>
    /\ UNCHANGED <<bot, loop, redirects, route, fetched, resetPending>>

\* users/@me answers get_userdata; on success func is called in write-cookie mode
userinfo_response(t, ok) ==
    /\ reqs[t].pc = "userinfo"
    /\ reqs' = [reqs EXCEPT ![t] =
                   IF ok
                   THEN CallFunc([@ EXCEPT !.user = get_userdata_user(t),
                                           !.mode = "write-cookie"])
                   ELSE ProviderError(@, "userinfo")]
    /\ UNCHANGED <<bot, loop, redirects, session, route, opened, fetched, resetPending>>

\* oauth2/authorize answers get_url, which returns the URL new_route redirects to
authorize_response(t, ok) ==
    /\ reqs[t].pc = "authorize"
    /\ LET redirect_url == make_url(reqs[t].request, reqs[t].request.path)
           url == get_url_escape(ProviderAuthorizeUrl(
                      get_url_params(redirect_url, route.scope)))
       IN /\ reqs' = [reqs EXCEPT ![t] =
                         IF ok THEN Redirect(@, get_url_return(url, reqs[t].state))
                         ELSE Raise([@ EXCEPT !.e = "authorize"], 500)]
          /\ fetched' = IF ok THEN fetched \cup {redirect_url} ELSE fetched
    /\ UNCHANGED <<bot, loop, redirects, session, route, opened, resetPending>>

\* func returns its response; new_route writes the cookie in write-cookie mode
func_returns(t) ==
    /\ reqs[t].pc = "func"
    /\ reqs' = [reqs EXCEPT ![t] =
                   [@ EXCEPT !.pc = "done", !.status = 200,
                             !.set_cookie = ResponseCookie(reqs[t])]]
    /\ UNCHANGED <<bot, loop, redirects, session, route, opened, fetched, resetPending>>

\* the response (or the error page) has gone out: the task ends
respond(t) ==
    /\ reqs[t].pc = "done"
    /\ reqs' = [reqs EXCEPT ![t] = IdleReq]
    /\ UNCHANGED <<bot, loop, redirects, session, route, opened, fetched, resetPending>>

reset_oauth(url) ==
    /\ redirects' = redirects_reset(redirects, url)
    /\ fetched' = fetched \ {url}
    /\ resetPending' = resetPending \cup {url}
    /\ UNCHANGED <<bot, loop, session, route, reqs, opened>>

reset_all_oauth ==
    /\ redirects' = redirects_reset_all(redirects)
    /\ fetched' = {}
    /\ resetPending' = URLs
    /\ UNCHANGED <<bot, loop, session, route, reqs, opened>>

\* the tasks that take up requests: one request is in flight at a time,
\* between the steps of which the startup task and the resets may run
Workers == {"t1"}

Next ==
    \/ Startup
    \/ \E force \in BOOLEAN, generator_arg \in CheckArgs, checker_arg \in CheckArgs :
          require_login(force, DefaultScope, generator_arg, checker_arg)
    \/ \E t \in Workers, request \in Requests : new_route(t, request)
    \/ \E t \in Workers : fetch_user_returns(t)
    \/ \E t \in Workers, ok \in BOOLEAN : token_response(t, ok)
    \/ \E t \in Workers, ok \in BOOLEAN : userinfo_response(t, ok)
    \/ \E t \in Workers, ok \in BOOLEAN : authorize_response(t, ok)
    \/ \E t \in Workers : func_returns(t)
    \/ \E t \in Workers : respond(t)
    \/ \E url \in URLs : reset_oauth(url)
    \/ reset_all_oauth

Spec == Init /\ [][Next]_vars

-----------------------------------------------------------------------------
\* Requests handled concurrently: two request tasks interleave at their
\* awaits.  The requests are a login request, the callbacks of the two
\* codes carrying the state of their host, and one carrying a cookie.
ConcArgs ==
    {EmptyDict}
    \cup {("code" :> c) @@ ("state" :> state_generator(
              [host |-> <<"a.example">>, ip |-> <<"10.0.0.1">>])) : c \in Codes}

ConcRequests ==
    [scheme : Schemes, host : {<<"a.example">>}, path : Paths, ip : Ips,
     cookies : {None}, args : ConcArgs]
    \cup [scheme : Schemes, host : {<<"a.example">>}, path : Paths, ip : Ips,
          cookies : {encrypt(CookieData(u)) : u \in Users}, args : {EmptyDict}]

NextConc ==
    \/ Startup
    \/ \E generator_arg \in {DefaultArg, None} :
          require_login(FALSE, DefaultScope, generator_arg, DefaultArg)
    \/ \E t \in Tasks, request \in ConcRequests : new_route(t, request)
    \/ \E t \in Tasks : fetch_user_returns(t)
    \/ \E t \in Tasks, ok \in BOOLEAN : token_response(t, ok)
    \/ \E t \in Tasks, ok \in BOOLEAN : userinfo_response(t, ok)
    \/ \E t \in Tasks, ok \in BOOLEAN : authorize_response(t, ok)
    \/ \E t \in Tasks : func_returns(t)
    \/ \E t \in Tasks : respond(t)
    \/ \E request \in ConcRequests : reset_oauth(make_url(request, request.path))
    \/ reset_all_oauth

SpecConc == Init /\ [][NextConc]_vars

-----------------------------------------------------------------------------
\* The state token of one request presented with another: hosts and
\* addresses of which two different pairs concatenate to the same string.
OriginHosts == {<<"a">>, <<"a", "b">>}
OriginIps == {<<"c">>, <<"b", "c">>}

\* f"{request.host}{request.ip}"
Origin(request) == request.host \o request.ip

OriginArgs ==
    {EmptyDict}
    \cup {("code" :> <<"ABC">>) @@ ("state" :> state_generator(
              [host |-> h, ip |-> i])) : h \in OriginHosts, i \in OriginIps}

OriginRequests ==
    [scheme : Schemes, host : OriginHosts, path : Paths, ip : OriginIps,
     cookies : {None}, args : OriginArgs]

NextState ==
    \/ Startup
    \/ require_login(FALSE, DefaultScope, DefaultArg, DefaultArg)
    \/ \E t \in Workers, request \in OriginRequests : new_route(t, request)
    \/ \E t \in Workers, ok \in BOOLEAN : token_response(t, ok)
    \/ \E t \in Workers, ok \in BOOLEAN : userinfo_response(t, ok)
    \/ \E t \in Workers, ok \in BOOLEAN : authorize_response(t, ok)
    \/ \E t \in Workers : func_returns(t)
    \/ \E t \in Workers : respond(t)

SpecState == Init /\ [][NextState]_vars

-----------------------------------------------------------------------------
(* Properties *)

\* the request of task t was taken up with the bot ready
Ready(t) == reqs[t].pc # "idle" /\ reqs[t].status # 503

\* the request of task t carries no usable session cookie
NoCookie(t) == ~Truthy(reqs[t].request.cookies)

\* the default checker accepts the state parameter of the request of task t
StateAccepted(t) ==
    TRUE \in state_checker(reqs[t].request, Get(reqs[t].request.args, "state", <<>>))

\* no provider endpoint appears twice in the calls of task t
CallsOnce(t) ==
    \A i, j \in 1..Len(reqs[t].calls) : i # j => reqs[t].calls[i] # reqs[t].calls[j]

\* C1: a request taken up while bot is None ends at once with 503: func is
\* not called, no cookie is set, no redirect is sent and no provider call is
\* made, whatever its cookie, its query and the force option of the route.
C1_Unavailable ==
    \A t \in Tasks :
        (bot = None /\ reqs[t].pc # "idle") =>
            /\ reqs[t].pc = "done"
            /\ reqs[t].status = 503
            /\ reqs[t].seen = <<>>
            /\ reqs[t].set_cookie = None
            /\ reqs[t].location = None
            /\ reqs[t].calls = <<>>
            /\ session = None

\* C1 witness: a request with a session cookie and a code, on a forced route,
\* answered 503 while the bot is still None
C1_Witness ==
    \E t \in Tasks :
        /\ bot = None
        /\ route.force
        /\ reqs[t].status = 503
        /\ Truthy(reqs[t].request.cookies)
        /\ "code" \in DOMAIN reqs[t].request.args


\* C2 (as claimed): on a route whose state checker is configured (here the
\* default one), a request with a code and a state the checker rejects, or
\* none, ends with 403, whatever was passed for state_generator: func is not
\* called, no cookie is set, and no token exchange or user-info fetch is made.
C2_StateRequired ==
    \A t \in Tasks :
        (/\ Ready(t)
         /\ NoCookie(t)
         /\ ~route.force
         /\ route.checker_arg = DefaultArg
         /\ "code" \in DOMAIN reqs[t].request.args
         /\ ~StateAccepted(t)) =>
            /\ reqs[t].pc = "done"
            /\ reqs[t].status = 403
            /\ reqs[t].seen = <<>>
            /\ reqs[t].set_cookie = None
            /\ reqs[t].calls = <<>>

\* the user the provider resolves the code of the request of task t to
CodeUser(t) == ProviderUser(ProviderToken(reqs[t].request.args["code"]))

\* the cookie text decrypts, under the secret key, to the id and name of u
CookieEncodes(cookie, u) ==
    /\ cookie # None
    /\ \A d \in reprypt_decrypt(cookie, secret_key, convert_b64) :
          /\ d # DecryptError
          /\ IsJson(d)
          /\ loads(d) = [id |-> IdToText(u.id), name |-> u.name]

\* C3: a request with no session cookie, force = false, a code and a state
\* the checker accepts sends the token exchange at once, then the user-info
\* fetch, each once and in that order; func is called only after both, once,
\* with the fetched user in request.ctx; and when no provider call failed the
\* request ends with the response of func carrying a session cookie that
\* encrypts the id and name of that user. The cookie is written only then.
C3_Callback ==
    \A t \in Tasks :
        (/\ Ready(t)
         /\ NoCookie(t)
         /\ ~route.force
         /\ route.state_checker # None
         /\ "code" \in DOMAIN reqs[t].request.args
         /\ StateAccepted(t)) =>
            /\ reqs[t].calls \in {<<"token">>, <<"token", "userinfo">>}
            /\ reqs[t].pc \in {"token", "userinfo", "func", "done"}
            /\ reqs[t].pc = "token" => reqs[t].calls = <<"token">>
            /\ reqs[t].seen # <<>> =>
                  /\ reqs[t].calls = <<"token", "userinfo">>
                  /\ reqs[t].seen = <<CodeUser(t)>>
                  /\ reqs[t].user = CodeUser(t)
            /\ (reqs[t].pc = "done" /\ reqs[t].e = "") =>
                  /\ reqs[t].status = 200
                  /\ reqs[t].seen = <<CodeUser(t)>>
                  /\ CookieEncodes(reqs[t].set_cookie, CodeUser(t))
            /\ reqs[t].set_cookie # None =>
                  (reqs[t].pc = "done" /\ reqs[t].seen = <<CodeUser(t)>>)
            /\ reqs[t].location = None

\* C3 witness: such a request has ended with the response of func and a cookie
C3_Witness ==
    \E t \in Tasks :
        /\ Ready(t)
        /\ reqs[t].request.cookies = None
        /\ ~route.force
        /\ route.state_checker # None
        /\ "code" \in DOMAIN reqs[t].request.args
        /\ "state" \in DOMAIN reqs[t].request.args
        /\ StateAccepted(t)
        /\ reqs[t].pc = "done"
        /\ reqs[t].status = 200
        /\ reqs[t].calls = <<"token", "userinfo">>
        /\ reqs[t].set_cookie # None

\* the callback URL scheme://host/path of a request, spelled out
CallbackUrlOf(request) ==
    <<request.scheme, ":", "/", "/">> \o request.host \o request.path

\* url is the provider's authorize URL for this client and the callback URL
\* cb: it starts with the authorize endpoint, names the client id, and its
\* redirect_uri is cb with its slashes escaped
IsAuthorizeUrlFor(url, cb) ==
    /\ Len(url) >= Len(BASE) + 4
    /\ SubSeq(url, 1, Len(BASE) + 4) = BASE \o <<"oauth2", "/", "authorize", "?">>
    /\ \E i \in 1..(Len(url) - 1) : url[i] = "client_id=" /\ url[i + 1] = client_id[1]
    /\ \E i \in 1..Len(url) :
          /\ url[i] = "redirect_uri="
          /\ Len(url) >= i + Len(cb)
          /\ SubSeq(url, i + 1, i + Len(cb)) =
                [k \in 1..Len(cb) |-> IF cb[k] = "/" THEN "%2F" ELSE cb[k]]
          /\ (Len(url) > i + Len(cb) => url[i + Len(cb) + 1] = "&state=")

\* C4: with the bot ready, a request with no session cookie and no query
\* parameters on a route with force = false never reaches func, never sets a
\* cookie and calls neither the token nor the user-info endpoint; it asks the
\* authorize endpoint, and when that answers the response is a redirect to the
\* provider authorize URL built for the callback URL scheme://host/path.
C4_Login ==
    \A t \in Tasks :
        (/\ Ready(t)
         /\ NoCookie(t)
         /\ ~route.force
         /\ DOMAIN reqs[t].request.args = {}) =>
            /\ reqs[t].seen = <<>>
            /\ reqs[t].set_cookie = None
            /\ reqs[t].calls \in {<<>>, <<"authorize">>}
            /\ reqs[t].pc \in {"authorize", "done"}
            /\ (reqs[t].pc = "done" /\ reqs[t].e = "") =>
                  /\ reqs[t].status = 302
                  /\ IsAuthorizeUrlFor(reqs[t].location,
                                       CallbackUrlOf(reqs[t].request))

\* C4 witness: such a request has been answered with the redirect
C4_Witness ==
    \E t \in Tasks :
        /\ Ready(t)
        /\ reqs[t].request.cookies = None
        /\ ~route.force
        /\ DOMAIN reqs[t].request.args = {}
        /\ reqs[t].pc = "done"
        /\ reqs[t].status = 302
        /\ reqs[t].location # None


\* a step in which task t sends a request to the authorize endpoint
AsksAuthorize(t) == reqs[t].pc # "authorize" /\ reqs'[t].pc = "authorize"

\* C5 (as claimed): once a get_url call for a callback URL has completed, no
\* later call for that URL goes to the authorize endpoint until a reset: it
\* is served from the redirect cache.
C5_OneRoundTrip ==
    [][\A t \in Tasks :
          AsksAuthorize(t) =>
              make_url(reqs'[t].request, reqs'[t].request.path) \notin fetched]_vars

\* C6 (as claimed): from the completion of the first successful get_url call
\* for a callback URL until a reset, get_redirect_oauth(url) is not None.
C6_CacheFilled ==
    \A url \in fetched : get_redirect_oauth(redirects, url) # None

\* a step in which task t takes up a request that get_url is called for
\* with this callback URL
CallsGetUrl(t, url) ==
    /\ reqs[t].pc = "idle"
    /\ reqs'[t].pc # "idle"
    /\ Phase(reqs'[t].request) = "login"
    /\ make_url(reqs'[t].request, reqs'[t].request.path) = url

\* C7: after reset_oauth(url), and for every url after reset_all_oauth(),
\* get_redirect_oauth(url) is None (and stays None until get_url is called for
\* it), and the next get_url call for the url sends a request to the authorize
\* endpoint instead of answering from the cache.
C7_Reset ==
    [][/\ \A url \in resetPending' : get_redirect_oauth(redirects', url) = None
       /\ \A t \in Tasks, url \in resetPending :
             CallsGetUrl(t, url) =>
                 /\ reqs'[t].pc = "authorize"
                 /\ reqs'[t].calls = <<"authorize">>
                 /\ reqs'[t].location = None]_vars

\* C7 witness: a url was reset, and the get_url call that followed is waiting
\* for the authorize endpoint
C7_Witness ==
    \E t \in Tasks :
        LET url == make_url(reqs[t].request, reqs[t].request.path)
        IN /\ reqs[t].pc = "authorize"
           /\ url \in DOMAIN redirects
           /\ url \notin resetPending
           /\ get_redirect_oauth(redirects, url) = None

\* C8: with the bot ready, a request that presents the session cookie the
\* guard issues for user u makes no provider call, gets no redirect and no
\* new cookie (mode stays normal), and func is called exactly once, with the
\* user fetched by u's id.
C8_SessionCookie ==
    \A t \in Tasks, u \in Users :
        (Ready(t) /\ reqs[t].request.cookies = encrypt(CookieData(u))) =>
            /\ reqs[t].calls = <<>>
            /\ reqs[t].location = None
            /\ reqs[t].set_cookie = None
            /\ reqs[t].mode = "normal"
            /\ reqs[t].pc \in {"fetch_user", "func", "done"}
            /\ reqs[t].pc = "fetch_user" => reqs[t].seen = <<>>
            /\ reqs[t].pc \in {"func", "done"} =>
                  (Len(reqs[t].seen) = 1 /\ reqs[t].seen[1].id = u.id
                                         /\ reqs[t].seen[1] \in Users)
            /\ reqs[t].pc = "done" <=> reqs[t].status = 200
            /\ reqs[t].status \in {0, 200}

\* C8 witness: such a request, with query parameters too, has been answered
C8_Witness ==
    \E t \in Tasks, u \in Users :
        /\ Ready(t)
        /\ ~route.force
        /\ reqs[t].request.cookies = encrypt(CookieData(u))
        /\ reqs[t].pc = "done"
        /\ reqs[t].seen = <<u>>

\* C9 (as claimed, for the cookies that decrypt): a request whose session
\* cookie decrypts under the secret key to something that is not an {id, name}
\* payload (text that does not parse, or a payload without a usable id)
\* reaches func with user = None and ends with the response of func, never
\* with an error.
C9_CorruptedCookie ==
    \A t \in Tasks :
        (/\ Ready(t)
         /\ IsCipherOf(reqs[t].request.cookies, secret_key, convert_b64)
         /\ reqs[t].request.cookies \notin {encrypt(CookieData(u)) : u \in Users}) =>
            /\ reqs[t].pc \in {"func", "done"}
            /\ reqs[t].seen = <<NoneUser>>
            /\ reqs[t].status \in {0, 200}

\* C10: in the callback phase an HTTP error of the token endpoint or of the
\* user-info endpoint ends the request with 400: func is not called, no cookie
\* is set, the failed call is not sent again, after a failed token exchange
\* the user-info endpoint is not called, and no request calls a provider
\* endpoint twice.
C10_ProviderError ==
    \A t \in Tasks :
        /\ CallsOnce(t)
        /\ reqs[t].status = 400 => reqs[t].e \in {"token", "userinfo"}
        /\ reqs[t].e \in {"token", "userinfo"} =>
              /\ reqs[t].pc = "done"
              /\ reqs[t].status = 400
              /\ reqs[t].seen = <<>>
              /\ reqs[t].set_cookie = None
              /\ reqs[t].location = None
              /\ reqs[t].calls =
                    (IF reqs[t].e = "token" THEN <<"token">>
                     ELSE <<"token", "userinfo">>)

\* C10 witness: one request failed at the user-info fetch after its token
\* exchange succeeded
C10_Witness ==
    \E t \in Tasks :
        /\ reqs[t].e = "userinfo"
        /\ reqs[t].status = 400
        /\ reqs[t].calls = <<"token", "userinfo">>

-----------------------------------------------------------------------------
\* the state a caller-supplied generator returns for a request, and the
\* verdict of the caller-supplied checker that goes with it
CustomState(request) == <<"custom">> \o request.host
CustomAccepts(request, state) == state = CustomState(request)

\* C11: on a route registered with a caller-supplied state_generator and a
\* caller-supplied state_checker, the login redirect carries the state the
\* supplied generator returns for the request, and a callback request is
\* rejected with 403 exactly when the supplied checker rejects its state.
C11_CustomUsed ==
    \A t \in Tasks :
        (/\ Ready(t)
         /\ NoCookie(t)
         /\ ~route.force
         /\ route.generator_arg = CustomArg
         /\ route.checker_arg = CustomArg) =>
            /\ (DOMAIN reqs[t].request.args = {} /\ reqs[t].status = 302) =>
                  /\ reqs[t].state = CustomState(reqs[t].request)
                  /\ \E i \in 1..Len(reqs[t].location) :
                        /\ reqs[t].location[i] = "&state="
                        /\ SubSeq(reqs[t].location, i + 1, Len(reqs[t].location))
                              = CustomState(reqs[t].request)
            /\ DOMAIN reqs[t].request.args # {} =>
                  (reqs[t].status = 403 <=>
                      ~CustomAccepts(reqs[t].request,
                                     Get(reqs[t].request.args, "state", <<>>)))

\* C12: on a route registered with state_checker = None, whatever its
\* state_generator, every callback-phase request goes on to the token
\* exchange: none is rejected with 403 and none fails before the token
\* endpoint is asked.
C12_CheckerNone ==
    \A t \in Tasks :
        (/\ Ready(t)
         /\ NoCookie(t)
         /\ ~route.force
         /\ route.checker_arg = None
         /\ DOMAIN reqs[t].request.args # {}) =>
            /\ reqs[t].calls # <<>>
            /\ reqs[t].calls[1] = "token"
            /\ reqs[t].status \notin {403, 500}

\* C13: with the default generator and checker and the one secret key, the
\* state generated for a request is accepted by the checker for that same
\* request, and it is rejected for every request whose host and address
\* concatenate to a different string: a callback carrying the state of
\* another origin ends with 403, one carrying the state of its own origin
\* goes on to the token exchange.
C13_StateBinding ==
    \A t \in Tasks :
        /\ reqs[t].state # None =>
              /\ state_checker(reqs[t].request, reqs[t].state) = {TRUE}
              /\ \A req2 \in OriginRequests :
                    Origin(req2) # Origin(reqs[t].request) =>
                        state_checker(req2, reqs[t].state) = {FALSE}
        /\ (Ready(t) /\ "state" \in DOMAIN reqs[t].request.args) =>
              \A req1 \in OriginRequests :
                  reqs[t].request.args["state"] = state_generator(req1) =>
                      /\ reqs[t].status = 403
                            <=> Origin(req1) # Origin(reqs[t].request)
                      /\ reqs[t].status # 403 => reqs[t].calls[1] = "token"

\* C13 witness: a callback carrying the state generated for a request of
\* another origin has been rejected
C13_Witness ==
    \E t \in Tasks, req1 \in OriginRequests :
        /\ Ready(t)
        /\ "state" \in DOMAIN reqs[t].request.args
        /\ reqs[t].request.args["state"] = state_generator(req1)
        /\ Origin(req1) # Origin(reqs[t].request)
        /\ reqs[t].status = 403
        /\ reqs[t].calls = <<>>

\* C14: on a route with force = true a request without a session cookie,
\* with or without query parameters, is never redirected and causes no
\* provider call: func is called exactly once with user = None, the request
\* ends with the response of func, and no cookie is set.
C14_Force ==
    \A t \in Tasks :
        (/\ Ready(t)
         /\ route.force
         /\ NoCookie(t)) =>
            /\ reqs[t].pc \in {"func", "done"}
            /\ reqs[t].seen = <<NoneUser>>
            /\ reqs[t].calls = <<>>
            /\ reqs[t].location = None
            /\ reqs[t].set_cookie = None
            /\ reqs[t].status = (IF reqs[t].pc = "done" THEN 200 ELSE 0)

\* C14 witness: a request with query parameters and no cookie has ended with
\* the response of func on a route with force = true
C14_Witness ==
    \E t \in Tasks :
        /\ route.force
        /\ reqs[t].request.cookies = None
        /\ "code" \in DOMAIN reqs[t].request.args
        /\ reqs[t].pc = "done"
        /\ reqs[t].status = 200
        /\ reqs[t].seen = <<NoneUser>>

\* C15: however concurrent requests interleave, one instance builds at most
\* one HTTP client session: it is built when the first provider call is made,
\* every call made later finds it, and it is never replaced.
C15_OneSession ==
    [][/\ opened' <= 1
       /\ session # None => session' = session
       /\ \A t \in Tasks :
             reqs'[t].calls # reqs[t].calls /\ reqs'[t].calls # <<>> =>
                 /\ session' = NewSession(1)
                 /\ opened' = 1]_vars

\* C15 witness: two requests are past their first provider call at the same
\* time, one of them past its second, and one session has been built
C15_Witness ==
    /\ opened = 1
    /\ session = NewSession(1)
    /\ reqs["t1"].pc = "userinfo"
    /\ reqs["t2"].pc \in {"token", "authorize"}

\* the request of task t arrived in the callback phase: no session cookie,
\* force = false, and a query that is not empty
InCallback(t) ==
    /\ Ready(t)
    /\ NoCookie(t)
    /\ ~route.force
    /\ DOMAIN reqs[t].request.args # {}

\* C16: a response carries a session cookie exactly when its request was in
\* the callback phase, the token exchange and the user-info fetch succeeded
\* and func has returned; the cookie is absent while func has not returned,
\* and no redirect, no 503, 403 or 400 answer and no request of the cookie
\* or force branch ever carries one.
C16_CookieWritten ==
    \A t \in Tasks :
        /\ reqs[t].set_cookie # None <=>
              /\ InCallback(t)
              /\ reqs[t].calls = <<"token", "userinfo">>
              /\ reqs[t].e = ""
              /\ reqs[t].seen = <<reqs[t].user>>
              /\ reqs[t].pc = "done"
        /\ reqs[t].set_cookie # None =>
              /\ reqs[t].status = 200
              /\ reqs[t].location = None
              /\ CookieEncodes(reqs[t].set_cookie, reqs[t].user)
        /\ (\/ reqs[t].status \in {302, 503, 403, 400}
            \/ reqs[t].pc # "done"
            \/ Truthy(reqs[t].request.cookies)
            \/ route.force) => reqs[t].set_cookie = None

\* C16 witness: a request of the cookie branch has ended with the response
\* of func and without a new cookie
C16_Witness ==
    \E t \in Tasks :
        /\ Truthy(reqs[t].request.cookies)
        /\ DOMAIN reqs[t].request.args # {}
        /\ reqs[t].pc = "done"
        /\ reqs[t].status = 200
        /\ reqs[t].seen # <<>>
        /\ reqs[t].set_cookie = None

\* C17: a request carrying query parameters and a session cookie that
\* decrypts under the instance key takes the cookie branch: it is not
\* answered with 403, it causes no provider call, no redirect and no new
\* cookie, and func is called once with the user resolved from the cookie,
\* the request ending with the response of func.
C17_CookieFirst ==
    \A t \in Tasks :
        (/\ Ready(t)
         /\ Truthy(reqs[t].request.cookies)
         /\ IsCipherOf(reqs[t].request.cookies, secret_key, convert_b64)
         /\ DOMAIN reqs[t].request.args # {}) =>
            /\ reqs[t].calls = <<>>
            /\ reqs[t].location = None
            /\ reqs[t].set_cookie = None
            /\ reqs[t].pc \in {"fetch_user", "func", "done"}
            /\ reqs[t].pc \in {"func", "done"} => Len(reqs[t].seen) = 1
            /\ \A u \in Users :
                  (reqs[t].request.cookies = encrypt(CookieData(u))
                      /\ reqs[t].seen # <<>>) => reqs[t].seen = <<u>>
            /\ reqs[t].status = (IF reqs[t].pc = "done" THEN 200 ELSE 0)

\* C18: a request with no session cookie, force = false and a query that is
\* not empty is treated as a callback whether or not the query has a code: it
\* is never answered with the login redirect and never asks the authorize
\* endpoint; it ends with 403 from the state check, or the token exchange is
\* attempted, after which it ends with 400 or goes on.
C18_QueryIsCallback ==
    \A t \in Tasks :
        InCallback(t) =>
            /\ reqs[t].status # 302
            /\ reqs[t].location = None
            /\ "authorize" \notin {reqs[t].calls[i] : i \in 1..Len(reqs[t].calls)}
            /\ \/ reqs[t].status = 403 /\ reqs[t].calls = <<>>
               \/ reqs[t].calls # <<>> /\ reqs[t].calls[1] = "token"
            /\ reqs[t].status \in {0, 403, 400, 200}

\* C19: when callback requests resolving to different users are in flight at
\* the same time, each keeps its own user: func of a request is called with
\* the user its own code resolves to, and the cookie set on its response
\* encodes that same user.
C19_OwnUser ==
    \A t \in Tasks :
        (InCallback(t) /\ "code" \in DOMAIN reqs[t].request.args) =>
            /\ reqs[t].seen # <<>> =>
                  /\ reqs[t].seen = <<CodeUser(t)>>
                  /\ reqs[t].user = CodeUser(t)
            /\ reqs[t].set_cookie # None =>
                  CookieEncodes(reqs[t].set_cookie, CodeUser(t))
            /\ (reqs[t].pc = "done" /\ reqs[t].e = "") =>
                  (reqs[t].status = 403 \/ reqs[t].set_cookie # None)

\* C19 witness: two callbacks of different codes overlapped and both ended
\* with a cookie, each for its own user
C19_Witness ==
    /\ InCallback("t1") /\ InCallback("t2")
    /\ CodeUser("t1") # CodeUser("t2")
    /\ reqs["t1"].pc = "done" /\ reqs["t2"].pc = "done"
    /\ CookieEncodes(reqs["t1"].set_cookie, CodeUser("t1"))
    /\ CookieEncodes(reqs["t2"].set_cookie, CodeUser("t2"))

\* C20: once the startup task has run, both attributes are set, bot to
\* app.ctx.bot and loop to app.loop, and bot is never None again.
C20_Startup ==
    /\ bot # None => (bot = TheBot /\ loop = TheLoop)
    /\ (\E t \in Tasks : reqs[t].pc # "idle" /\ reqs[t].status # 503) => bot # None

====
